---- MODULE Spec2Model ----
(***************************************************************************)
(* Model of the carving engine of recovery/file_recovery.py:               *)
(* FileRecoveryTool (scan_device, _scan_device_data, _recover_file,        *)
(* _read_until_trailer, _read_file_heuristic, _validate_file_content) and  *)
(* the recover_files wrapper.                                              *)
(*                                                                         *)
(* A source is a read-only byte string.  It is written sparsely: a size    *)
(* and a set of placed byte runs ("segments"); every other byte is zero.   *)
(* Every buffer the program holds (a block, a chunk, a candidate) is a     *)
(* slice of the source, so a buffer is kept as (start offset, length).     *)
(***************************************************************************)
EXTENDS Integers, Sequences, FiniteSets, TLC

(***************************************************************************)
(* Catalog (module-level tables of file_recovery.py)                       *)
(***************************************************************************)
Tags == <<"jpg", "png", "gif", "pdf", "zip", "docx", "xlsx", "pptx", "mp3", "mp4", "avi">>

SigJpg0 == <<255, 216, 255, 224>>
SigJpg1 == <<255, 216, 255, 225>>
SigPng == <<137, 80, 78, 71, 13, 10, 26, 10>>
SigGif87 == <<71, 73, 70, 56, 55, 97>>
SigGif89 == <<71, 73, 70, 56, 57, 97>>
SigPdf == <<37, 80, 68, 70>>
SigZip == <<80, 75, 3, 4>>
SigOoxml == <<80, 75, 3, 4, 20, 0, 6, 0>>
SigMp3 == <<73, 68, 51>>
SigMp4 == <<0, 0, 0, 24, 102, 116, 121, 112>>
SigAvi == <<82, 73, 70, 70>>

\* FILE_SIGNATURES.get(file_type, [])
FILE_SIGNATURES(t) ==
    CASE t = "jpg" -> <<SigJpg0, SigJpg1>>
      [] t = "png" -> <<SigPng>>
      [] t = "gif" -> <<SigGif87, SigGif89>>
      [] t = "pdf" -> <<SigPdf>>
      [] t = "zip" -> <<SigZip>>
      [] t = "docx" -> <<SigOoxml>>
      [] t = "xlsx" -> <<SigOoxml>>
      [] t = "pptx" -> <<SigOoxml>>
      [] t = "mp3" -> <<SigMp3>>
      [] t = "mp4" -> <<SigMp4>>
      [] t = "avi" -> <<SigAvi>>
      [] OTHER -> << >>

PatWord == <<119, 111, 114, 100, 47>>
PatXl == <<120, 108, 47>>
PatPpt == <<112, 112, 116, 47>>
PatContentTypes == <<91, 67, 111, 110, 116, 101, 110, 116, 95, 84, 121, 112, 101, 115, 93, 46, 120, 109, 108>>
PatCentralDir == <<80, 75, 1, 2>>
PatObj == <<111, 98, 106>>
PatEndobj == <<101, 110, 100, 111, 98, 106>>
PatPK == <<80, 75>>

\* VALIDATION_PATTERNS.get(file_type, [])
VALIDATION_PATTERNS(t) ==
    CASE t = "docx" -> <<PatWord, PatContentTypes>>
      [] t = "xlsx" -> <<PatXl, PatContentTypes>>
      [] t = "pptx" -> <<PatPpt, PatContentTypes>>
      [] t = "zip" -> <<PatCentralDir>>
      [] t = "pdf" -> <<PatObj, PatEndobj>>
      [] OTHER -> << >>

TrlJpg == <<255, 217>>
TrlPng == <<73, 69, 78, 68, 174, 66, 96, 130>>
TrlGif == <<0, 59>>
TrlPdf == <<37, 37, 69, 79, 70>>

\* FILE_TRAILERS.get(file_type); << >> stands for None
FILE_TRAILERS(t) ==
    CASE t = "jpg" -> TrlJpg
      [] t = "png" -> TrlPng
      [] t = "gif" -> TrlGif
      [] t = "pdf" -> TrlPdf
      [] OTHER -> << >>

MiB == 1024 * 1024

\* MAX_FILE_SIZES.get(file_type, 10 * 1024 * 1024)
MAX_FILE_SIZES(t) ==
    CASE t = "jpg" -> 30 * MiB
      [] t = "png" -> 50 * MiB
      [] t = "gif" -> 20 * MiB
      [] t = "pdf" -> 100 * MiB
      [] t = "zip" -> 200 * MiB
      [] t = "docx" -> 50 * MiB
      [] t = "xlsx" -> 50 * MiB
      [] t = "pptx" -> 100 * MiB
      [] t = "mp3" -> 50 * MiB
      [] t = "mp4" -> 1024 * MiB
      [] t = "avi" -> 1024 * MiB
      [] OTHER -> 10 * MiB

\* chunk_size of both extraction strategies
chunk_size == 4096
\* initial probe of the heuristic strategy for container formats
container_probe_size == 16384
\* minimum viable candidate length
MIN_LEN == 100
\* invalid-chunk threshold and the valid-chunk count the per-chunk PK check waits for
INVALID_LIMIT == 3
VALID_WARMUP == 10
\* get_device_size's last fallback
FALLBACK_SIZE == 1024 * MiB

ContainerTags == {"docx", "xlsx", "pptx", "zip"}
\* the list of line 310: every cataloged tag
BinaryTags == {"jpg", "png", "gif", "pdf", "zip", "docx", "xlsx", "pptx", "mp3", "mp4", "avi"}

\* Bounds of the model: I/O errors the environment raises in one run
MaxReadErrors == 1
MaxWriteErrors == 1

(***************************************************************************)
(* Bytes of a source                                                       *)
(***************************************************************************)
Seg(off, bytes) == [off |-> off, bytes |-> bytes]

MinOf(S) == CHOOSE x \in S : \A y \in S : x <= y
MaxNat(a, b) == IF a >= b THEN a ELSE b
MinNat(a, b) == IF a <= b THEN a ELSE b

\* the byte of the source at offset i (0-based), 0 <= i < src.size
ByteAt(src, i) ==
    IF \E s \in src.segs : s.off <= i /\ i < s.off + Len(s.bytes)
    THEN LET s == CHOOSE s \in src.segs : s.off <= i /\ i < s.off + Len(s.bytes)
         IN  s.bytes[i - s.off + 1]
    ELSE 0

\* pat occurs in the source at offset p
MatchAt(src, p, pat) == \A j \in 1..Len(pat) : ByteAt(src, p + j - 1) = pat[j]

\* Offsets where a pattern holding a non-zero byte can occur: such an occurrence
\* overlaps a segment.  Every pattern of the catalog holds a non-zero byte.
NearSegs(src, n) ==
    UNION {(s.off - n + 1)..(s.off + Len(s.bytes) - 1) : s \in src.segs}

\* bytes.find(pat, from) on the buffer source[lo:hi], as an absolute offset; -1 if absent
FindIn(src, lo, hi, pat, from) ==
    LET M == {p \in NearSegs(src, Len(pat)) :
                 /\ p >= lo
                 /\ p >= from
                 /\ p + Len(pat) <= hi
                 /\ MatchAt(src, p, pat)}
    IN  IF M = {} THEN -1 ELSE MinOf(M)

\* pat in source[lo:hi]
Contains(src, lo, hi, pat) == FindIn(src, lo, hi, pat, lo) # -1

\* device.read(n) at cursor pos: the number of bytes returned
ReadLen(src, pos, n) == MaxNat(0, MinNat(n, src.size - pos))


\* bytes of source[lo:hi] that are printable ASCII or tab, LF, CR (line 315)
PrintableIn(src, lo, hi) ==
    Cardinality({i \in NearSegs(src, 1) :
                    /\ lo <= i /\ i < hi
                    /\ LET b == ByteAt(src, i)
                       IN  (32 <= b /\ b <= 126) \/ b \in {9, 10, 13}})

(***************************************************************************)
(* Pure steps of the two extraction strategies                             *)
(***************************************************************************)
None == 0 - 1

\* buffer[:n] of a buffer of length len (Python slice, n may be negative)
SlicePrefix(len, n) == IF n < 0 THEN MaxNat(0, len + n) ELSE MinNat(n, len)

\* mutation of line 283: ">=" for ">"
TrailerExit_GE(buflen) == IF buflen >= MIN_LEN THEN buflen ELSE None

\* _read_until_trailer, line 283: what the loop's exit returns
TrailerExit(buflen) == IF buflen > MIN_LEN THEN buflen ELSE None

\* mutation of lines 271 and 304: "<=" for "<"
LoopContinues_LE(buflen, max_size) == buflen <= max_size

\* lines 271 and 304: while len(buffer) < max_size
LoopContinues(buflen, max_size) == buflen < max_size

\* mutation of line 277: the search starts at the tail of the buffer only, with no
\* overlap over the chunk just read
TrailerSearchFrom_NoOverlap(buflen, trailer) == MaxNat(0, buflen - Len(trailer))

\* _read_until_trailer, line 277: where the search for the trailer starts in the buffer
TrailerSearchFrom(buflen, trailer) == MaxNat(0, buflen - Len(trailer) - chunk_size)

\* mutation of line 279: the buffer is returned whole when the trailer is found
TrailerCut_Whole(buflen, at, trailer) == buflen

\* _read_until_trailer, line 279: buffer[:trailer_pos + len(trailer)], the trailer
\* being found at index at of the buffer
TrailerCut(buflen, at, trailer) == SlicePrefix(buflen, at + Len(trailer))

\* _read_until_trailer, lines 271-279: one pass of the while loop on the buffer
\* source[start : start+buflen] with the cursor at devpos.  ioerr: the read raises.
\* Yields the new buffer length, whether the function returns, and its result.
TrailerStep(src, trailer, max_size, start, buflen, devpos, ioerr) ==
    IF ~LoopContinues(buflen, max_size)
    THEN [ret |-> TRUE, buflen |-> buflen, cand |-> TrailerExit(buflen), n |-> 0]
    ELSE IF ioerr THEN [ret |-> TRUE, buflen |-> buflen, cand |-> TrailerExit(buflen), n |-> 0]
    ELSE LET n == ReadLen(src, devpos, chunk_size)
             len2 == buflen + n
             trailer_pos == FindIn(src, start, start + len2, trailer,
                                   start + TrailerSearchFrom(len2, trailer))
         IN  IF n = 0 THEN [ret |-> TRUE, buflen |-> buflen, cand |-> TrailerExit(buflen), n |-> 0]
             ELSE IF trailer_pos # -1
                  THEN [ret |-> TRUE, buflen |-> len2,
                        cand |-> TrailerCut(len2, trailer_pos - start, trailer), n |-> n]
                  ELSE [ret |-> FALSE, buflen |-> len2, cand |-> None, n |-> n]

\* mutation of line 290: the probe of a container is one chunk like any other
InitialChunkSize_Chunk(t) == chunk_size

\* _read_file_heuristic, line 290
InitialChunkSize(t) == IF t \in ContainerTags THEN container_probe_size ELSE chunk_size

\* _read_file_heuristic, lines 296-303: the marker the probe of a container must hold
ProbeMarker(t) ==
    CASE t = "docx" -> PatWord
      [] t = "xlsx" -> PatXl
      [] t = "pptx" -> PatPpt
      [] t = "zip" -> PatCentralDir

\* _read_file_heuristic, lines 291-303: the probe read at cursor start.
ProbeStep(src, t, start) ==
    LET n == ReadLen(src, start, InitialChunkSize(t))
    IN  IF n = 0 THEN [ret |-> TRUE, buflen |-> 0, cand |-> None, n |-> 0]
        ELSE IF t \in ContainerTags /\ ~Contains(src, start, start + n, ProbeMarker(t))
             THEN [ret |-> TRUE, buflen |-> n, cand |-> None, n |-> n]
             ELSE [ret |-> FALSE, buflen |-> n, cand |-> None, n |-> n]

\* _read_file_heuristic, lines 304-325: one pass of the while loop.
HeurStep(src, t, max_size, start, buflen, devpos, valid, invalid, ioerr) ==
    IF ~LoopContinues(buflen, max_size) \/ ioerr
    THEN [ret |-> TRUE, buflen |-> buflen, cand |-> buflen, n |-> 0, valid |-> valid, invalid |-> invalid]
    ELSE LET n == ReadLen(src, devpos, chunk_size)
             len2 == buflen + n
             pkMissing == t \in ContainerTags /\ ~Contains(src, devpos, devpos + n, PatPK)
                          /\ valid + 1 > VALID_WARMUP
             lowText == PrintableIn(src, devpos, devpos + n) * 10 < 7 * n
             valid2 == IF t \in BinaryTags THEN valid + 1
                       ELSE IF lowText THEN valid ELSE valid + 1
             invalid2 == IF t \in BinaryTags
                         THEN (IF pkMissing THEN invalid + 1 ELSE invalid)
                         ELSE (IF lowText THEN invalid + 1 ELSE invalid)
         IN  IF n = 0
             THEN [ret |-> TRUE, buflen |-> buflen, cand |-> buflen, n |-> 0, valid |-> valid, invalid |-> invalid]
             ELSE IF invalid2 > INVALID_LIMIT
                  THEN [ret |-> TRUE, buflen |-> len2,
                        cand |-> SlicePrefix(len2, len2 - invalid2 * chunk_size),
                        n |-> n, valid |-> valid2, invalid |-> invalid2]
                  ELSE [ret |-> FALSE, buflen |-> len2, cand |-> None,
                        n |-> n, valid |-> valid2, invalid |-> invalid2]

\* lines 223-225: some pattern of the list is in source[lo:hi]
ContainsAny(src, lo, hi, patterns) ==
    \E i \in 1..Len(patterns) : Contains(src, lo, hi, patterns[i])

\* mutation of _validate_file_content: the size floor only, no substring check
ValidateFileContent_SizeOnly(src, t, start, len) == ~(len < MIN_LEN)

\* _validate_file_content on the candidate source[start : start+len]
ValidateFileContent(src, t, start, len) ==
    IF len < MIN_LEN THEN FALSE
    ELSE LET patterns == VALIDATION_PATTERNS(t)
         IN  IF Len(patterns) > 0
             THEN ContainsAny(src, start, start + len, patterns)
             ELSE TRUE

\* _recover_file, line 247: "not file_data or len(file_data) < 100"
TooShort(cand) == cand = None \/ cand = 0 \/ cand < MIN_LEN

\* _recover_file, line 242: trailer and self.deep_scan
UsesTrailer(t, deep_scan) == Len(FILE_TRAILERS(t)) > 0 /\ deep_scan

(***************************************************************************)
(* State                                                                   *)
(***************************************************************************)
VARIABLES
    cfg,             \* the session: source, options and what the environment may do
    pc,              \* where the run is
    position,        \* _scan_device_data: position
    device_size,     \* _scan_device_data: device_size (after the max_scan_size cap)
    devpos,          \* the cursor of the open source handle
    data,            \* the block of the current iteration: [start, len]
    k,               \* index of the (file_type, signature) pair the for-loops are at
    ext,             \* the _recover_file call in progress
    stats,           \* self.stats
    timeout_reached, \* self.timeout_reached
    files,           \* files of the output tree created by this run, in order
    hits,            \* signature hits reported so far, in order
    reads,           \* history: the offsets of the block reads, the highest offset
                     \* read, the number of block reads of the iterations begun
                     \* when the timer went off, and the offsets of the block reads
                     \* that raised
    faults,          \* history: I/O errors raised so far
    result,          \* what recover_files returned
    summaries        \* number of _print_summary calls

vars == <<cfg, pc, position, device_size, devpos, data, k, ext, stats,
          timeout_reached, files, hits, reads, faults, result, summaries>>

NoExt == [type |-> "", start |-> 0, buflen |-> 0, valid |-> 0, invalid |-> 0,
          saved |-> 0, cand |-> None, ok |-> FALSE]

RECURSIVE PairsOf(_)
\* the (file_type, signature) pairs in the order the nested for-loops visit them
PairsOf(types) ==
    IF types = << >> THEN << >>
    ELSE LET t == Head(types)
             sigs == FILE_SIGNATURES(t)
         IN  [i \in 1..Len(sigs) |-> [type |-> t, sig |-> sigs[i]]] \o PairsOf(Tail(types))

Pairs == PairsOf(cfg.file_types)

\* mutation of line 184: the search runs over the block and the bytes that follow
\* it, so that a signature lying over the end of the block is found too
SigPos_Overlap(i) ==
    CHOOSE r \in {FindIn(cfg.src, data.start, data.start + data.len + Len(sig) - 1,
                         sig, data.start) :
                     sig \in {Pairs[i].sig}} : TRUE

\* line 184: data.find(signature) on the current block, as an absolute offset (the
\* signature of pair i is taken from the catalog once, then searched for)
SigPos(i) ==
    CHOOSE r \in {FindIn(cfg.src, data.start, data.start + data.len, sig, data.start) :
                     sig \in {Pairs[i].sig}} : TRUE

\* the next pair at or after index i whose signature is in the block; 0 when none is
NextHit(i) ==
    LET H == {j \in i..Len(Pairs) : SigPos(j) # -1}
    IN  IF H = {} THEN 0 ELSE MinOf(H)

\* the environment may still raise a read error on the source / an error on a file
\* of the output tree
MayReadErr == cfg.faulty /\ faults.read < MaxReadErrors
MayWriteErr == cfg.out_faulty /\ faults.write < MaxWriteErrors

(***************************************************************************)
(* scan_device and the sweep of _scan_device_data                          *)
(***************************************************************************)
\* lines 160-162: the scan ceiling
ScanCeiling(size, max_scan_size) ==
    IF max_scan_size # 0 /\ max_scan_size < size THEN max_scan_size ELSE size

\* scan_device, lines 139-147: the size is taken, the timer is armed when a timeout
\* is configured
StartScan ==
    /\ pc = "idle"
    /\ device_size' = cfg.device_size
    /\ pc' = "armed"
    /\ UNCHANGED <<cfg, position, devpos, data, k, ext, stats, timeout_reached, files,
                   hits, reads, faults, result, summaries>>

\* scan_device, line 149, and _scan_device_data, lines 159-162: the source is
\* opened, the cursor of the sweep is at 0, the size is cut to the scan ceiling
OpenSource ==
    /\ pc = "armed"
    /\ device_size' = ScanCeiling(device_size, cfg.max_scan_size)
    /\ position' = 0
    /\ devpos' = 0
    /\ pc' = "mkdir"
    /\ UNCHANGED <<cfg, data, k, ext, stats, timeout_reached, files, hits, reads,
                   faults, result, summaries>>

\* _scan_device_data, lines 164-168: the directories of the selected formats exist
MakeOutputDirs ==
    /\ pc = "mkdir"
    /\ pc' = "loop"
    /\ UNCHANGED <<cfg, position, device_size, devpos, data, k, ext, stats,
                   timeout_reached, files, hits, reads, faults, result, summaries>>

\* scan_device, lines 151-153: the source cannot be accessed
OpenSourceError ==
    /\ pc = "armed"
    /\ cfg.faulty
    /\ result' = "false"
    /\ pc' = "done"
    /\ reads' = [reads EXCEPT !.stop = "open"]
    /\ UNCHANGED <<cfg, position, device_size, devpos, data, k, ext, stats,
                   timeout_reached, files, hits, faults, summaries>>

\* _scan_device_data, lines 164-165, and scan_device, lines 151-153: the source is
\* open, a directory of a selected format cannot be created in the output tree;
\* the OSError leaves _scan_device_data and is handled like a failure of the source
OutputDirError ==
    /\ pc = "mkdir"
    /\ cfg.out_faulty
    /\ result' = "false"
    /\ pc' = "done"
    /\ reads' = [reads EXCEPT !.stop = "mkdir"]
    /\ UNCHANGED <<cfg, position, device_size, devpos, data, k, ext, stats,
                   timeout_reached, files, hits, faults, summaries>>

\* mutation of line 170: the loop runs only while a whole block is left
SweepGoesOn_WholeBlocks(pos, size, bs) == pos + bs < size

\* line 170: while position < device_size
SweepGoesOn(pos, size, bs) == pos < size

\* line 170: the while condition fails
SweepCompleted ==
    /\ pc = "loop"
    /\ ~SweepGoesOn(position, device_size, cfg.block_size)
    /\ pc' = "summary"
    /\ reads' = [reads EXCEPT !.stop = "ceiling"]
    /\ UNCHANGED <<cfg, position, device_size, devpos, data, k, ext, stats,
                   timeout_reached, files, hits, faults, result, summaries>>

\* mutation of lines 171-173: the loop never looks at the flag
StopsOnTimeout_Never == FALSE

\* line 171: the loop observes the flag
StopsOnTimeout == timeout_reached

\* lines 171-173
SweepTimedOut ==
    /\ pc = "loop"
    /\ SweepGoesOn(position, device_size, cfg.block_size)
    /\ StopsOnTimeout
    /\ pc' = "summary"
    /\ reads' = [reads EXCEPT !.stop = "timeout"]
    /\ UNCHANGED <<cfg, position, device_size, devpos, data, k, ext, stats,
                   timeout_reached, files, hits, faults, result, summaries>>

\* line 176: the number of bytes the block read asks for
BlockReadSize == cfg.block_size

\* lines 170-174: the while condition holds and the flag is not seen set; the
\* iteration starts
EnterIteration ==
    /\ pc = "loop"
    /\ SweepGoesOn(position, device_size, cfg.block_size)
    /\ ~StopsOnTimeout
    /\ pc' = "read"
    /\ UNCHANGED <<cfg, position, device_size, devpos, data, k, ext, stats,
                   timeout_reached, files, hits, reads, faults, result, summaries>>

\* lines 175-176: seek and read one block
BlockRead ==
    /\ pc = "read"
    /\ LET n == ReadLen(cfg.src, position, BlockReadSize)
       IN  /\ devpos' = position + n
           /\ data' = [start |-> position, len |-> n]
           /\ reads' = IF n = 0 THEN reads
                       ELSE [reads EXCEPT !.blocks = Append(@, position),
                                          !.high = MaxNat(@, position + n)]
    /\ pc' = "fetched"
    /\ UNCHANGED <<cfg, position, device_size, k, ext, stats, timeout_reached, files,
                   hits, faults, result, summaries>>

\* lines 177-181: an empty read ends the sweep; otherwise the bytes of the block
\* are counted and the for-loops start on it
BlockCount ==
    /\ pc = "fetched"
    /\ IF data.len = 0
       THEN /\ pc' = "summary"
            /\ reads' = [reads EXCEPT !.stop = "eof"]
            /\ UNCHANGED <<k, stats>>
       ELSE /\ pc' = "scan"
            /\ k' = 1
            /\ stats' = [stats EXCEPT !.bytes_scanned = @ + data.len]
            /\ UNCHANGED reads
    /\ UNCHANGED <<cfg, position, device_size, devpos, data, ext, timeout_reached,
                   files, hits, faults, result, summaries>>

\* mutation of line 216: the handler leaves the block cursor where it is
AfterReadError_Stuck(pos, bs) == pos

\* line 216: the block cursor after a block read that raised
AfterReadError(pos, bs) == pos + bs

\* lines 214-216: the read of the block raises
BlockReadError ==
    /\ pc = "read"
    /\ MayReadErr
    /\ faults' = [faults EXCEPT !.read = @ + 1]
    /\ position' = AfterReadError(position, cfg.block_size)
    /\ devpos' = position
    /\ reads' = [reads EXCEPT !.failed = Append(@, position)]
    /\ pc' = "loop"
    /\ UNCHANGED <<cfg, device_size, data, k, ext, stats, timeout_reached,
                   files, hits, result, summaries>>

\* _recover_file, lines 241-245: the strategy the extraction of a hit of format t
\* starts with
ExtractionStart(t) == IF UsesTrailer(t, cfg.deep_scan) THEN "trailer" ELSE "probe"

\* lines 181-188 and _recover_file, lines 230-235: the for-loops reach the next pair
\* whose signature is in the block; the hit is reported, the cursor is moved to it
\* and _recover_file starts: with skip_existing it first tests whether the output
\* name exists, without it (line 235 short-circuits) it goes to the extraction.
HandleHit ==
    /\ pc = "scan"
    /\ NextHit(k) # 0
    /\ LET i == NextHit(k)
           t == Pairs[i].type
           absolute_pos == SigPos(i)
       IN  /\ k' = i
           /\ devpos' = absolute_pos
           /\ hits' = Append(hits, [type |-> t, pair |-> i, pos |-> absolute_pos,
                                    block |-> position,
                                    cand |-> None, window |-> 0, outcome |-> "pending",
                                    file |-> 0,
                                    before |-> absolute_pos, after |-> None])
           /\ ext' = [NoExt EXCEPT !.type = t, !.start = absolute_pos,
                                   !.saved = absolute_pos]
           /\ pc' = IF cfg.skip_existing THEN "exists" ELSE ExtractionStart(t)
    /\ UNCHANGED <<cfg, position, device_size, data, stats, timeout_reached, files,
                   reads, faults, result, summaries>>

\* line 196: no further pair hits in this block; the block cursor advances
BlockAdvance ==
    /\ pc = "scan"
    /\ NextHit(k) = 0
    /\ position' = position + cfg.block_size
    /\ k' = 0
    /\ pc' = "loop"
    /\ UNCHANGED <<cfg, device_size, devpos, data, ext, stats, timeout_reached,
                   files, hits, reads, faults, result, summaries>>

(***************************************************************************)
(* _recover_file and the two extraction strategies                         *)
(***************************************************************************)
ReadNoted(n) == IF n > 0 THEN [reads EXCEPT !.high = MaxNat(@, devpos + n)] ELSE reads

\* an extraction step r was taken: the buffer, the cursor and the position in the code
ExtractionStepped(r, next) ==
    /\ devpos' = devpos + r.n
    /\ reads' = ReadNoted(r.n)
    /\ pc' = IF r.ret THEN "check" ELSE next

\* _read_until_trailer: one pass of its loop
TrailerRead ==
    /\ pc = "trailer"
    /\ LET r == TrailerStep(cfg.src, FILE_TRAILERS(ext.type), MAX_FILE_SIZES(ext.type),
                            ext.start, ext.buflen, devpos, FALSE)
       IN  /\ ext' = [ext EXCEPT !.buflen = r.buflen, !.cand = r.cand]
           /\ ExtractionStepped(r, "trailer")
    /\ UNCHANGED <<cfg, position, device_size, data, k, stats, timeout_reached,
                   files, hits, faults, result, summaries>>

\* _read_until_trailer, lines 280-282: the chunk read raises
TrailerReadError ==
    /\ pc = "trailer"
    /\ MayReadErr
    /\ LoopContinues(ext.buflen, MAX_FILE_SIZES(ext.type))
    /\ LET r == TrailerStep(cfg.src, FILE_TRAILERS(ext.type), MAX_FILE_SIZES(ext.type),
                            ext.start, ext.buflen, devpos, TRUE)
       IN  /\ ext' = [ext EXCEPT !.buflen = r.buflen, !.cand = r.cand]
           /\ ExtractionStepped(r, "trailer")
    /\ faults' = [faults EXCEPT !.read = @ + 1]
    /\ UNCHANGED <<cfg, position, device_size, data, k, stats, timeout_reached,
                   files, hits, result, summaries>>

\* _read_file_heuristic, lines 286-303: the probe
ProbeRead ==
    /\ pc = "probe"
    /\ LET r == ProbeStep(cfg.src, ext.type, devpos)
       IN  /\ ext' = [ext EXCEPT !.buflen = r.buflen, !.cand = r.cand]
           /\ ExtractionStepped(r, "heur")
    /\ UNCHANGED <<cfg, position, device_size, data, k, stats, timeout_reached,
                   files, hits, faults, result, summaries>>

\* line 291 raises: nothing in _read_file_heuristic catches it, _recover_file does
\* (lines 259-261) and returns False
ProbeReadError ==
    /\ pc = "probe"
    /\ MayReadErr
    /\ faults' = [faults EXCEPT !.read = @ + 1]
    /\ ext' = [ext EXCEPT !.cand = None, !.ok = FALSE]
    /\ pc' = "ret"
    /\ UNCHANGED <<cfg, position, device_size, devpos, data, k, stats,
                   timeout_reached, files, hits, reads, result, summaries>>

\* _read_file_heuristic: one pass of its loop
HeurRead ==
    /\ pc = "heur"
    /\ LET r == HeurStep(cfg.src, ext.type, MAX_FILE_SIZES(ext.type), ext.start,
                         ext.buflen, devpos, ext.valid, ext.invalid, FALSE)
       IN  /\ ext' = [ext EXCEPT !.buflen = r.buflen, !.cand = r.cand,
                                 !.valid = r.valid, !.invalid = r.invalid]
           /\ ExtractionStepped(r, "heur")
    /\ UNCHANGED <<cfg, position, device_size, data, k, stats, timeout_reached,
                   files, hits, faults, result, summaries>>

\* _read_file_heuristic, lines 322-324: the chunk read raises
HeurReadError ==
    /\ pc = "heur"
    /\ MayReadErr
    /\ LoopContinues(ext.buflen, MAX_FILE_SIZES(ext.type))
    /\ LET r == HeurStep(cfg.src, ext.type, MAX_FILE_SIZES(ext.type), ext.start,
                         ext.buflen, devpos, ext.valid, ext.invalid, TRUE)
       IN  /\ ext' = [ext EXCEPT !.buflen = r.buflen, !.cand = r.cand]
           /\ ExtractionStepped(r, "heur")
    /\ faults' = [faults EXCEPT !.read = @ + 1]
    /\ UNCHANGED <<cfg, position, device_size, data, k, stats, timeout_reached,
                   files, hits, result, summaries>>

\* mutation of _recover_file: lines 250-252 (the call of the validator) left out
Accepts_NoValidation(src, t, start, cand) == ~TooShort(cand)

\* _recover_file, lines 247-252: is the extracted candidate kept
Accepts(src, t, start, cand) ==
    ~TooShort(cand) /\ ValidateFileContent(src, t, start, cand)

\* _recover_file, lines 247-252
CheckCandidate ==
    /\ pc = "check"
    /\ IF Accepts(cfg.src, ext.type, ext.start, ext.cand)
       THEN pc' = "open" /\ UNCHANGED ext
       ELSE pc' = "ret" /\ ext' = [ext EXCEPT !.ok = FALSE]
    /\ UNCHANGED <<cfg, position, device_size, devpos, data, k, stats,
                   timeout_reached, files, hits, reads, faults, result, summaries>>

\* line 254: open(output_path, 'wb') creates the file, empty
OpenOutput ==
    /\ pc = "open"
    /\ files' = Append(files, [type |-> ext.type, start |-> ext.start,
                               len |-> ext.cand, written |-> 0])
    /\ pc' = "write"
    /\ UNCHANGED <<cfg, position, device_size, devpos, data, k, ext, stats,
                   timeout_reached, hits, reads, faults, result, summaries>>

\* line 254 raises; lines 259-261 return False
OpenOutputError ==
    /\ pc = "open"
    /\ MayWriteErr
    /\ faults' = [faults EXCEPT !.write = @ + 1]
    /\ ext' = [ext EXCEPT !.ok = FALSE]
    /\ pc' = "ret"
    /\ UNCHANGED <<cfg, position, device_size, devpos, data, k, stats,
                   timeout_reached, files, hits, reads, result, summaries>>

\* lines 255-258: the candidate is written and the file closed
WriteOutput ==
    /\ pc = "write"
    /\ files' = [files EXCEPT ![Len(files)].written = files[Len(files)].len]
    /\ ext' = [ext EXCEPT !.ok = TRUE]
    /\ pc' = "ret"
    /\ UNCHANGED <<cfg, position, device_size, devpos, data, k, stats,
                   timeout_reached, hits, reads, faults, result, summaries>>

\* what the code does with the output file when the write raises (lines 259-261)
AfterFailedWrite(fs, w) == [fs EXCEPT ![Len(fs)].written = w]

\* lines 254-255: the numbers of bytes a write of n bytes that raises may leave on
\* the file: any number from none to all of them (the error is then raised when the
\* file is flushed or closed)
WrittenBeforeError(n) == 0..n

\* line 255 raises after none, a part or all of the bytes reached the file
WriteOutputError ==
    /\ pc = "write"
    /\ MayWriteErr
    /\ \E w \in WrittenBeforeError(files[Len(files)].len) :
           files' = AfterFailedWrite(files, w)
    /\ faults' = [faults EXCEPT !.write = @ + 1]
    /\ ext' = [ext EXCEPT !.ok = FALSE]
    /\ pc' = "ret"
    /\ UNCHANGED <<cfg, position, device_size, devpos, data, k, stats,
                   timeout_reached, hits, reads, result, summaries>>

\* mutation of lines 192-193: a rejected hit is not counted
Counted_NoReject(st, t, ok) ==
    IF ok THEN [st EXCEPT !.total_files_recovered = @ + 1]
    ELSE st

\* lines 189-190 and 192-193: the counter that the statement following the return
\* of _recover_file updates (the count of format t is the statement after, line 191)
Counted(st, t, ok) ==
    IF ok THEN [st EXCEPT !.total_files_recovered = @ + 1]
    ELSE [st EXCEPT !.false_positives = @ + 1]

\* mutation of lines 181-183: the for-loops stay on the pair they just handled
NextPair_Same(i) == i

\* lines 181-183: the for-loops go on with the pair after the one just handled
NextPair(i) == i + 1

\* mutation of lines 262-266: no seek back, the cursor stays where the extraction
\* left it
RestoredCursor_Left(saved, cur) == cur

\* lines 239 and 262-264: the cursor _recover_file leaves behind, having saved
\* device.tell() on entry and found the cursor at cur after the extraction
RestoredCursor(saved, cur) == saved

\* lines 262-266 (finally: the cursor goes back to where _recover_file found it),
\* then lines 189-194 of the sweep: the total or the false positives are counted;
\* after a rejected hit the cursor is put on the next block and the for-loops go on
ReturnFromRecover ==
    /\ pc = "ret"
    /\ stats' = Counted(stats, ext.type, ext.ok)
    /\ hits' = [hits EXCEPT ![Len(hits)] =
                   [@ EXCEPT !.cand = ext.cand,
                             !.window = IF ext.cand # None THEN ext.cand ELSE ext.buflen,
                             !.outcome = IF ext.ok THEN "recovered" ELSE "rejected",
                             !.file = IF ext.ok THEN Len(files) ELSE 0,
                             !.after = RestoredCursor(ext.saved, devpos)]]
    /\ IF ext.ok
       THEN /\ devpos' = RestoredCursor(ext.saved, devpos)
            /\ k' = k
            /\ pc' = "tally"
       ELSE /\ devpos' = position + cfg.block_size
            /\ k' = NextPair(k)
            /\ pc' = "scan"
    /\ ext' = NoExt
    /\ UNCHANGED <<cfg, position, device_size, data, timeout_reached, files, reads,
                   faults, result, summaries>>

\* lines 191 and 194: the count of the format of the recovered file, then the seek
\* to the next block; the for-loops go on
CountByType ==
    /\ pc = "tally"
    /\ stats' = [stats EXCEPT !.recovered_by_type[Pairs[k].type] = @ + 1]
    /\ devpos' = position + cfg.block_size
    /\ k' = NextPair(k)
    /\ pc' = "scan"
    /\ UNCHANGED <<cfg, position, device_size, data, ext, timeout_reached, files, hits,
                   reads, faults, result, summaries>>

\* line 235, output_path.exists() is False, and lines 239-245: the extraction starts
NameIsNew ==
    /\ pc = "exists"
    /\ pc' = ExtractionStart(ext.type)
    /\ UNCHANGED <<cfg, position, device_size, devpos, data, k, ext, stats,
                   timeout_reached, files, hits, reads, faults, result, summaries>>

\* lines 235-237, output_path.exists() is True: _recover_file returns False with
\* nothing read (the cursor stays on the hit); lines 192-194 count a false positive,
\* put the cursor on the next block and the for-loops go on
SkipExisting ==
    /\ pc = "exists"
    /\ cfg.name_taken
    /\ hits' = [hits EXCEPT ![Len(hits)] = [@ EXCEPT !.outcome = "skipped",
                                                     !.after = devpos]]
    /\ stats' = Counted(stats, ext.type, FALSE)
    /\ devpos' = position + cfg.block_size
    /\ k' = NextPair(k)
    /\ ext' = NoExt
    /\ pc' = "scan"
    /\ UNCHANGED <<cfg, position, device_size, data, timeout_reached, files, reads,
                   faults, result, summaries>>

\* line 235 raises (output_path.exists() passes on an OSError such as EACCES): the
\* call is outside the try of line 240, so the exception leaves _recover_file and
\* the for-loops and is caught at lines 214-216: the hit is counted neither as
\* recovered nor as a false positive, the remaining pairs of the block are not
\* searched, bytes_scanned keeps the block, and the block cursor advances
ExistsError ==
    /\ pc = "exists"
    /\ MayWriteErr
    /\ faults' = [faults EXCEPT !.write = @ + 1]
    /\ hits' = [hits EXCEPT ![Len(hits)] = [@ EXCEPT !.outcome = "dropped",
                                                     !.after = devpos]]
    /\ position' = AfterReadError(position, cfg.block_size)
    /\ k' = 0
    /\ ext' = NoExt
    /\ pc' = "loop"
    /\ UNCHANGED <<cfg, device_size, devpos, data, stats, timeout_reached, files,
                   reads, result, summaries>>

(***************************************************************************)
(* End of the run, the timer and the user                                  *)
(***************************************************************************)
\* scan_device, line 155: _print_summary is called
EmitSummary ==
    /\ pc = "summary"
    /\ summaries' = summaries + 1
    /\ pc' = "return"
    /\ UNCHANGED <<cfg, position, device_size, devpos, data, k, ext, stats,
                   timeout_reached, files, hits, reads, faults, result>>

\* scan_device, line 156, and recover_files, line 383: True is returned
ReturnTrue ==
    /\ pc = "return"
    /\ result' = "true"
    /\ pc' = "done"
    /\ UNCHANGED <<cfg, position, device_size, devpos, data, k, ext, stats,
                   timeout_reached, files, hits, reads, faults, summaries>>

Running == pc \notin {"idle", "done"}

\* _setup_timeout, lines 107-111: the alarm, armed at line 146 and cancelled
\* nowhere, goes off, during the run or after it; the handler sets the flag
TimeoutFires ==
    /\ cfg.timeout_minutes # 0
    /\ pc # "idle"
    /\ ~timeout_reached
    /\ timeout_reached' = TRUE
    /\ reads' = [reads EXCEPT !.atTimeout =
                                 Len(reads.blocks) + (IF pc = "read" THEN 1 ELSE 0)]
    /\ UNCHANGED <<cfg, pc, position, device_size, devpos, data, k, ext, stats,
                   files, hits, faults, result, summaries>>

\* recover_files, lines 384-387: KeyboardInterrupt during scan_device
Interrupt ==
    /\ cfg.sigint
    /\ Running
    /\ summaries' = summaries + 1
    /\ result' = "false"
    /\ pc' = "done"
    /\ reads' = [reads EXCEPT !.stop = "interrupt"]
    /\ UNCHANGED <<cfg, position, device_size, devpos, data, k, ext, stats,
                   timeout_reached, files, hits, faults>>

(***************************************************************************)
(* Sessions the model is run on                                            *)
(***************************************************************************)
Range(q) == {q[i] : i \in 1..Len(q)}

\* line 73: an empty selection stands for every format of the catalog
SelectedTypes(types) == IF types = << >> THEN Tags ELSE types

\* a session with no timeout, no size limit, skip_existing at its default (line
\* 66), a regular file as source and an environment that raises nothing and holds
\* no file of a name the run draws
Session(src, types, deep, bs, note) ==
    [src |-> src, device_size |-> src.size, block_size |-> bs, deep_scan |-> deep,
     file_types |-> SelectedTypes(types), max_scan_size |-> 0, timeout_minutes |-> 0,
     skip_existing |-> TRUE, faulty |-> FALSE, out_faulty |-> FALSE,
     name_taken |-> FALSE, sigint |-> FALSE, note |-> note]

TrailerTags == {"jpg", "png", "gif", "pdf"}

\* a source holding sig at X, the trailer of f ending at X + L - 1 and, for a pdf,
\* the validation substring "obj" in between; pad zero bytes follow
CarvedSource(f, sig, X, L, pad) ==
    [size |-> X + L + pad,
     segs |-> {Seg(X, sig), Seg(X + L - Len(FILE_TRAILERS(f)), FILE_TRAILERS(f))}
              \cup (IF f = "pdf" THEN {Seg(X + 20, PatObj)} ELSE {})]

\* family A: one trailer-bearing file in the source, deep scan
FamilyAOf(f) ==
    {Session(CarvedSource(f, FILE_SIGNATURES(f)[1], X, L, 300), types, TRUE, bs,
             [family |-> "A", fmt |-> f, X |-> X, Y |-> X + L - 1]) :
        X \in {0, 510, 1024}, L \in {200, 5000}, bs \in {512, 4096},
        types \in {<<f>>, Tags}}

FamilyA == UNION {FamilyAOf(f) : f \in TrailerTags}

\* family B: 10 KiB, PNG signature at 1024, PNG trailer at 9000, block size 512
FamilyB ==
    {Session([size |-> 10240, segs |-> {Seg(1024, SigPng), Seg(9000, TrlPng)}],
             Tags, TRUE, 512, [family |-> "B", fmt |-> "png", X |-> 1024, Y |-> 9007])}

\* family C: a size limit (max_scan_size) below the size of the source
FamilyC ==
    {[Session(CarvedSource("png", SigPng, X, 600, 3000), <<"png">>, deep, 512,
              [family |-> "C", fmt |-> "png", X |-> X, Y |-> X + 599])
        EXCEPT !.max_scan_size = m] :
        X \in {100, 600, 800, 2000}, m \in {700, 1024}, deep \in BOOLEAN}

\* family D: sources longer than the maximum candidate size, and the container probe
FamilyD ==
    {Session([size |-> 20 * MiB + 8192, segs |-> {Seg(0, SigGif89)}], <<"gif">>, deep,
             4 * MiB, [family |-> "D", fmt |-> "gif", X |-> 0, Y |-> 0]) :
        deep \in BOOLEAN}
    \cup
    {Session([size |-> n, segs |-> {Seg(0, SigZip), Seg(300, PatCentralDir)}], <<"zip">>,
             FALSE, 4096, [family |-> "D", fmt |-> "zip", X |-> 0, Y |-> 0]) :
        n \in {9000, 20000, 16384 + 15 * 4096}}

AllMagics == UNION {Range(FILE_SIGNATURES(t)) : t \in Range(Tags)}

\* family E: one magic sequence with fewer than 100 bytes from it to the end
FamilyE ==
    {Session([size |-> X + n, segs |-> {Seg(X, m)}], Tags, deep, 512,
             [family |-> "E", fmt |-> "", X |-> X, Y |-> X + n - 1]) :
        m \in AllMagics, X \in {0, 600}, n \in {50, 99}, deep \in BOOLEAN}

\* family F: signatures with and without the validation substrings of their format
FamilyF ==
    {Session([size |-> 5000, segs |-> {Seg(0, sig)} \cup extra], types, deep, 4096,
             [family |-> "F", fmt |-> "", X |-> 0, Y |-> 0]) :
        sig \in {SigZip, SigOoxml, SigPdf},
        extra \in {{}, {Seg(300, PatCentralDir)}, {Seg(300, PatWord)},
                   {Seg(300, PatContentTypes)}, {Seg(300, PatObj)},
                   {Seg(300, TrlPdf)}, {Seg(300, TrlPdf), Seg(400, PatObj)},
                   {Seg(200, PatObj), Seg(300, TrlPdf)}},
        types \in {Tags, <<"zip">>, <<"pdf">>}, deep \in BOOLEAN}

\* family G: small sources under an environment that raises read errors, a user
\* who may interrupt, and a configured timeout; in the sessions of the pdf source
\* the output tree raises errors too (a failing write may leave any number of the
\* candidate's bytes on the file, so these sessions have the small candidate);
\* one source whose size is not known
FamilyG ==
    {[Session(CarvedSource("png", SigPng, 0, 5000, 300), <<"png", "pdf">>, deep, bs,
              [family |-> "G", fmt |-> "", X |-> 0, Y |-> 0])
        EXCEPT !.faulty = TRUE, !.sigint = TRUE, !.timeout_minutes = 1] :
        deep \in BOOLEAN, bs \in {512, 4096}}
    \cup
    {[Session(CarvedSource("pdf", SigPdf, 600, 400, 200), <<"png", "pdf">>, deep, bs,
              [family |-> "G", fmt |-> "", X |-> 0, Y |-> 0])
        EXCEPT !.faulty = TRUE, !.out_faulty = TRUE, !.sigint = TRUE,
               !.timeout_minutes = 1] :
        deep \in BOOLEAN, bs \in {512, 4096}}
    \cup
    {[Session([size |-> 5000, segs |-> {Seg(0, SigZip), Seg(300, PatCentralDir)}],
              <<"zip">>, FALSE, 4096, [family |-> "G", fmt |-> "", X |-> 0, Y |-> 0])
        EXCEPT !.faulty = TRUE, !.sigint = TRUE, !.timeout_minutes = 1],
     [Session([size |-> 1000, segs |-> {Seg(100, SigMp3)}],
              Tags, FALSE, 512, [family |-> "G", fmt |-> "", X |-> 0, Y |-> 0])
        EXCEPT !.device_size = FALLBACK_SIZE],
     \* the constructor takes any block_size: a session with block_size = 0
     Session([size |-> 1000, segs |-> {Seg(100, SigMp3)}],
             Tags, FALSE, 0, [family |-> "G", fmt |-> "", X |-> 0, Y |-> 0])}

\* family H: several signatures in one source, two of them in the same 512-byte
\* block; one session under an environment that raises read errors
\*   100 png magic, trailer ending at 699     1100 jpg magic, no trailer
\*   1200 pdf magic, "obj", "%%EOF" at 1395   2000 zip magic, PK 01 02 at 2300
MixedSource ==
    [size |-> 3000,
     segs |-> {Seg(100, SigPng), Seg(692, TrlPng), Seg(1100, SigJpg0), Seg(1200, SigPdf),
               Seg(1220, PatObj), Seg(1395, TrlPdf), Seg(2000, SigZip),
               Seg(2300, PatCentralDir)}]

\* the png magic at 100, at 300 and at 700, the jpg magic at 200
RepeatedSource ==
    [size |-> 2000,
     segs |-> {Seg(100, SigPng), Seg(200, SigJpg0), Seg(300, SigPng), Seg(700, SigPng)}]

FamilyH ==
    {Session(src, Tags, deep, bs, [family |-> "H", fmt |-> "", X |-> 0, Y |-> 0]) :
        src \in {MixedSource, RepeatedSource}, deep \in BOOLEAN, bs \in {512, 4096}}
    \cup
    {[Session(MixedSource, Tags, TRUE, 512, [family |-> "H", fmt |-> "", X |-> 0, Y |-> 0])
        EXCEPT !.faulty = TRUE]}

\* the offsets, from the start of the extraction, at which family I puts the
\* trailer of n bytes: ending at the first chunk seam, split over it by one byte on
\* either side, starting at it, and split over the second seam
SeamOffsets(n) ==
    {chunk_size - n, chunk_size - 1, chunk_size - n + 1, chunk_size, 2 * chunk_size - 1}

\* family I: the magic of a trailer-bearing format at 100, its trailer at a chunk
\* seam of the extraction and once more 50 bytes later; the last read is short
FamilyIOf(f) ==
    {Session([size |-> 100 + o + 700,
              segs |-> {Seg(100, FILE_SIGNATURES(f)[1]), Seg(100 + o, FILE_TRAILERS(f)),
                        Seg(100 + o + 50, FILE_TRAILERS(f))}
                       \cup (IF f = "pdf" THEN {Seg(120, PatObj)} ELSE {})],
             <<f>>, TRUE, chunk_size,
             [family |-> "I", fmt |-> f, X |-> 100,
              Y |-> 100 + o + Len(FILE_TRAILERS(f)) - 1]) :
        o \in SeamOffsets(Len(FILE_TRAILERS(f)))}

FamilyI == UNION {FamilyIOf(f) : f \in TrailerTags}

\* family J: the png magic at 0 and no trailer, in sources of MIN_LEN bytes and of
\* one byte more, deep scan
FamilyJ ==
    {Session([size |-> n, segs |-> {Seg(0, SigPng)}], <<"png">>, TRUE, 512,
             [family |-> "J", fmt |-> "png", X |-> 0, Y |-> n - 1]) :
        n \in {MIN_LEN, MIN_LEN + 1}}

\* family K: the magic of a container format at 0 and the marker its probe must
\* hold (for docx, xlsx and pptx with [Content_Types].xml at 300, inside the
\* probe) ending with the probe, lying across the end of the probe, and 600 bytes
\* after it
FamilyKOf(t) ==
    {Session([size |-> container_probe_size + chunk_size + 1000,
              segs |-> {Seg(0, FILE_SIGNATURES(t)[1]), Seg(m, ProbeMarker(t))}
                       \cup (IF t = "zip" THEN {} ELSE {Seg(300, PatContentTypes)})],
             <<t>>, deep, chunk_size,
             [family |-> "K", fmt |-> t, X |-> 0, Y |-> m]) :
        m \in {container_probe_size - Len(ProbeMarker(t)),
               container_probe_size - Len(ProbeMarker(t)) + 1,
               container_probe_size + 600},
        deep \in BOOLEAN}

FamilyK == UNION {FamilyKOf(t) : t \in ContainerTags}

\* the png magic at 100, again at 300 and over the block boundary 512 (508..515),
\* a jpg magic ending at the boundary 1024 and another over the boundary 1536
StraddleSource ==
    [size |-> 2000,
     segs |-> {Seg(100, SigPng), Seg(300, SigPng), Seg(508, SigPng),
               Seg(1020, SigJpg0), Seg(1534, SigJpg1)}]

\* family L: magic sequences inside a block, repeated in it and over its boundaries
FamilyL ==
    {Session(StraddleSource, << >>, deep, bs, [family |-> "L", fmt |-> "", X |-> 0, Y |-> 0]) :
        deep \in BOOLEAN, bs \in {512, 4096}}

\* a png of 150 bytes at 100 and, in the same 512-byte block, the magic sequence of
\* docx, xlsx and pptx (which starts with the one of zip) at 300, with none of
\* their validation substrings
StackedSource ==
    [size |-> 1000,
     segs |-> {Seg(100, SigPng), Seg(242, TrlPng), Seg(300, SigOoxml)}]

\* family M: five pairs hit in one block, in an output tree that may hold a file
\* of a name the run draws; with skip_existing and an output tree that raises no
\* error, and with and without skip_existing in one that does
FamilyM ==
    {[Session(StackedSource, Tags, TRUE, 512, [family |-> "M", fmt |-> "", X |-> 0, Y |-> 0])
        EXCEPT !.skip_existing = skip, !.out_faulty = TRUE, !.name_taken = TRUE] :
        skip \in BOOLEAN}
    \cup
    {[Session(StackedSource, Tags, TRUE, 512, [family |-> "M", fmt |-> "", X |-> 0, Y |-> 0])
        EXCEPT !.name_taken = TRUE]}

Scenarios == FamilyA \cup FamilyB \cup FamilyC \cup FamilyD \cup FamilyE \cup FamilyF
             \cup FamilyG \cup FamilyH \cup FamilyI \cup FamilyJ \cup FamilyK
             \cup FamilyL \cup FamilyM

Init ==
    /\ cfg \in Scenarios
    /\ pc = "idle"
    /\ position = 0
    /\ device_size = 0
    /\ devpos = 0
    /\ data = [start |-> 0, len |-> 0]
    /\ k = 0
    /\ ext = NoExt
    /\ stats = [total_files_recovered |-> 0,
                recovered_by_type |-> [t \in Range(cfg.file_types) |-> 0],
                bytes_scanned |-> 0,
                false_positives |-> 0]
    /\ timeout_reached = FALSE
    /\ files = << >>
    /\ hits = << >>
    /\ reads = [blocks |-> << >>, high |-> 0, atTimeout |-> None, failed |-> << >>,
               stop |-> "none"]
    /\ faults = [read |-> 0, write |-> 0]
    /\ result = "none"
    /\ summaries = 0

Next ==
    \/ StartScan
    \/ OpenSource
    \/ MakeOutputDirs
    \/ OpenSourceError
    \/ OutputDirError
    \/ SweepCompleted
    \/ SweepTimedOut
    \/ EnterIteration
    \/ BlockRead
    \/ BlockCount
    \/ BlockReadError
    \/ HandleHit
    \/ NameIsNew
    \/ SkipExisting
    \/ ExistsError
    \/ BlockAdvance
    \/ TrailerRead
    \/ TrailerReadError
    \/ ProbeRead
    \/ ProbeReadError
    \/ HeurRead
    \/ HeurReadError
    \/ CheckCandidate
    \/ OpenOutput
    \/ OpenOutputError
    \/ WriteOutput
    \/ WriteOutputError
    \/ ReturnFromRecover
    \/ CountByType
    \/ EmitSummary
    \/ ReturnTrue
    \/ TimeoutFires
    \/ Interrupt

Spec == Init /\ [][Next]_vars

\* the steps the program takes by itself: everything but the I/O errors, the timer
\* and the interrupt, which are the environment's
ProgramStep ==
    \/ StartScan
    \/ OpenSource
    \/ MakeOutputDirs
    \/ SweepCompleted
    \/ SweepTimedOut
    \/ EnterIteration
    \/ BlockRead
    \/ BlockCount
    \/ HandleHit
    \/ NameIsNew
    \/ BlockAdvance
    \/ TrailerRead
    \/ ProbeRead
    \/ HeurRead
    \/ CheckCandidate
    \/ OpenOutput
    \/ WriteOutput
    \/ ReturnFromRecover
    \/ CountByType
    \/ EmitSummary
    \/ ReturnTrue

\* the sessions termination is checked on: every size limit of family C, the
\* mixed source at block size 512 (with and without read errors), the source whose
\* size is not known, block_size = 0, two sessions with I/O errors, a timer and a user who may
\* interrupt (one extracting by trailer, one by heuristic), the 20 MiB source
\* whose extraction runs to the maximum size, and the block of five hits in an
\* output tree that may hold the name drawn
TermSessions ==
    FamilyC
    \cup {c \in FamilyH : c.src = MixedSource /\ c.block_size = 512}
    \cup {c \in FamilyG : ~c.sigint}
    \cup {c \in FamilyG : c.sigint /\ c.block_size = 512 /\ c.deep_scan /\ c.src.size = 1200}
    \cup {c \in FamilyG : c.sigint /\ c.file_types = <<"zip">>}
    \cup {c \in FamilyD : c.note.fmt = "gif" /\ c.deep_scan}
    \cup {c \in FamilyM : ~c.out_faulty}

\* the program is one sequential thread that keeps running: it takes its next step
\* unless the environment cuts in
TermInit == Init /\ cfg \in TermSessions

TermSpec == TermInit /\ [][Next]_vars /\ WF_vars(ProgramStep)

\* the run returned from scan_device with no I/O error, timeout or interrupt on the
\* way, and with no hit skipped for a name that exists
CleanEnd ==
    /\ pc = "done"
    /\ result = "true"
    /\ ~timeout_reached
    /\ faults.read = 0
    /\ faults.write = 0
    /\ \A i \in 1..Len(hits) : hits[i].outcome # "skipped"

(***************************************************************************)
(* Properties                                                              *)
(***************************************************************************)
Complete(f) == f.written = f.len

\* C1: a deep scan of a source holding a trailer-bearing format's magic at X and
\* its trailer ending at Y recovers exactly one candidate of that format, the bytes
\* X..Y, whatever X is relative to the block boundaries and whatever block_size is.
C1_DeepScanRecoversExactSpan ==
    (cfg.note.family = "A" /\ CleanEnd) =>
        /\ files = <<[type |-> cfg.note.fmt, start |-> cfg.note.X,
                      len |-> cfg.note.Y - cfg.note.X + 1,
                      written |-> cfg.note.Y - cfg.note.X + 1]>>
        /\ stats.total_files_recovered = 1

\* C2: the 10 KiB source with the PNG signature at 1024 and the PNG trailer at 9000,
\* block_size 512, deep scan: exactly one png file, of 7976 bytes plus the trailer,
\* under png/, and recovered_by_type['png'] = 1.
C2_PngScenario ==
    (cfg.note.family = "B" /\ CleanEnd) =>
        /\ files = <<[type |-> "png", start |-> 1024, len |-> 7976 + Len(TrlPng),
                      written |-> 7976 + Len(TrlPng)]>>
        /\ stats.total_files_recovered = 1
        /\ stats.recovered_by_type["png"] = 1
        /\ \A t \in Range(cfg.file_types) \ {"png"} : stats.recovered_by_type[t] = 0

C2_Witness ==
    /\ cfg.note.family = "B"
    /\ CleanEnd
    /\ Len(files) = 1
    /\ Len(reads.blocks) = 20

\* C3: every file of the output tree holds a candidate of at least 100 bytes that,
\* when its format has validation substrings, contains one of them.
C3_AcceptedCandidatesAreValid ==
    \A i \in 1..Len(files) :
        LET f == files[i]
        IN  /\ f.len >= 100
            /\ Len(VALIDATION_PATTERNS(f.type)) > 0 =>
                   \E j \in 1..Len(VALIDATION_PATTERNS(f.type)) :
                       FindIn(cfg.src, f.start, f.start + f.len,
                              VALIDATION_PATTERNS(f.type)[j], f.start) >= f.start

C3_Witness ==
    /\ pc = "done"
    /\ stats.total_files_recovered >= 1
    /\ \E i \in 1..Len(files) :
           /\ Len(VALIDATION_PATTERNS(files[i].type)) > 0
           /\ Complete(files[i])

\* C4: with max_scan_size set, no byte at an offset >= max_scan_size is ever read,
\* by a block read of the sweep or by an extraction read.
C4_NoReadBeyondMaxScan ==
    cfg.max_scan_size # 0 => reads.high <= cfg.max_scan_size

\* C5: with max_scan_size below the source size, no signature that starts at an
\* offset >= max_scan_size is ever reported as a hit.
C5_NoHitBeyondMaxScan ==
    (cfg.max_scan_size # 0 /\ cfg.max_scan_size < cfg.src.size) =>
        \A i \in 1..Len(hits) : hits[i].pos < cfg.max_scan_size

\* the steps of one block iteration after its block was read
IterationStep ==
    \/ BlockRead
    \/ BlockCount
    \/ HandleHit
    \/ NameIsNew
    \/ BlockAdvance
    \/ TrailerRead
    \/ ProbeRead
    \/ HeurRead
    \/ CheckCandidate
    \/ OpenOutput
    \/ WriteOutput
    \/ ReturnFromRecover
    \/ CountByType

InIteration ==
    pc \in {"read", "fetched", "scan", "exists", "trailer", "probe", "heur", "check",
            "open", "write", "ret", "tally"}

\* the files and the counters of the next state keep what the current state holds
OutputsKept ==
    /\ Len(files') >= Len(files)
    /\ \A i \in 1..Len(files) :
           /\ files'[i].type = files[i].type
           /\ files'[i].start = files[i].start
           /\ files'[i].written >= files[i].written
    /\ stats'.total_files_recovered >= stats.total_files_recovered
    /\ \A t \in Range(cfg.file_types) :
           stats'.recovered_by_type[t] >= stats.recovered_by_type[t]

\* C6: once the timer has set timeout_reached, the block iteration in progress (an
\* extraction and a write in flight included) goes on to its end, the sweep stops
\* only at the top of the loop, no block is read after that iteration, the flag
\* stays set, and the files written and counted so far stay written and counted.
C6_TimeoutStopsAtBlockBoundary ==
    /\ [](timeout_reached => Len(reads.blocks) <= reads.atTimeout)
    /\ []((timeout_reached /\ InIteration) => ENABLED IterationStep)
    /\ [][timeout_reached =>
            /\ timeout_reached'
            /\ (pc' = "summary" /\ pc # "summary") => pc = "loop"
            /\ OutputsKept]_vars

C6_Witness ==
    /\ pc = "done"
    /\ result = "true"
    /\ timeout_reached
    /\ position < device_size
    /\ reads.atTimeout = Len(reads.blocks)
    /\ Len(reads.blocks) >= 1
    /\ Len(files) = 1
    /\ Complete(files[1])
    /\ stats.total_files_recovered = 1

\* C7: a candidate returned by either extraction strategy is never longer than the
\* maximum candidate size of its format.
C7_CandidateWithinMaxSize ==
    /\ ext.type # "" => /\ ext.cand <= MAX_FILE_SIZES(ext.type)
                        /\ pc \in {"check", "open", "write", "ret"} =>
                               ext.cand <= ext.buflen
    /\ \A i \in 1..Len(hits) : hits[i].cand <= MAX_FILE_SIZES(hits[i].type)
    /\ \A i \in 1..Len(files) : files[i].len <= MAX_FILE_SIZES(files[i].type)

C7_Witness ==
    /\ \E i \in 1..Len(hits) : hits[i].cand = MAX_FILE_SIZES(hits[i].type)
    /\ pc = "done"

\* s occurs in m (both byte sequences)
OccursIn(s, m) ==
    \E o \in 0..(Len(m) - Len(s)) : \A j \in 1..Len(s) : m[o + j] = s[j]

\* the magic sequence a source of family E holds
MagicOf(c) == (CHOOSE g \in c.src.segs : TRUE).bytes

\* the (selected tag, magic sequence) pairs of the catalog whose sequence occurs in m
MatchingPairs(types, m) ==
    {<<t, i>> \in Range(types) \X (1..2) :
        i <= Len(FILE_SIGNATURES(t)) /\ OccursIn(FILE_SIGNATURES(t)[i], m)}

\* C8 as stated: one matched signature with fewer than 100 bytes from its start to
\* the end of the source gives no recovered file and a false-positive counter of
\* exactly one, for every cataloged magic sequence, all format tags selected.
C8_ShortTailOneFalsePositive ==
    (cfg.note.family = "E" /\ CleanEnd) =>
        /\ stats.total_files_recovered = 0
        /\ Len(files) = 0
        /\ stats.false_positives = 1

\* C8 amended: no recovered file, and the false-positive counter equals the number
\* of (selected format tag, magic sequence) pairs whose magic sequence occurs in the
\* matched bytes: four for the 8-byte PK magic (zip, docx, xlsx, pptx), else one.
C8_ShortTailFalsePositivePerPair ==
    (cfg.note.family = "E" /\ CleanEnd) =>
        /\ stats.total_files_recovered = 0
        /\ Len(files) = 0
        /\ stats.false_positives =
               Cardinality(MatchingPairs(cfg.file_types, MagicOf(cfg)))
        /\ stats.false_positives = IF MagicOf(cfg) = SigOoxml THEN 4 ELSE 1

C8_Witness ==
    /\ cfg.note.family = "E"
    /\ CleanEnd
    /\ MagicOf(cfg) = SigOoxml
    /\ stats.false_positives = 4
    /\ Len(hits) = 4

\* the window extracted for a hit (the candidate, or what was read when the
\* strategy returned none) holds none of the validation substrings of its format
LacksPatterns(t, start, window) ==
    /\ Len(VALIDATION_PATTERNS(t)) > 0
    /\ \A j \in 1..Len(VALIDATION_PATTERNS(t)) :
           FindIn(cfg.src, start, start + window, VALIDATION_PATTERNS(t)[j], start) = -1

NumberOf(outcome) == Cardinality({i \in 1..Len(hits) : hits[i].outcome = outcome})

\* the extraction of hit i was run and _recover_file returned from it
Extracted(i) == hits[i].outcome \in {"recovered", "rejected"}

\* C9: a hit of a format with validation substrings whose extracted window holds
\* none of them is rejected: it counts as a false positive, the recovered counters
\* do not count it and no file is written for it.
C9_MissingPatternsRejected ==
    /\ \A i \in 1..Len(hits) :
           (Extracted(i)
              /\ LacksPatterns(hits[i].type, hits[i].pos, hits[i].window)) =>
               /\ hits[i].outcome = "rejected"
               /\ hits[i].file = 0
               /\ \A j \in 1..Len(files) :
                      ~(files[j].type = hits[i].type /\ files[j].start = hits[i].pos)
    /\ stats.false_positives = NumberOf("rejected") + NumberOf("skipped")
    /\ stats.total_files_recovered = NumberOf("recovered")
    /\ \A t \in Range(cfg.file_types) :
           LET n == Cardinality({i \in 1..Len(hits) :
                                    hits[i].outcome = "recovered" /\ hits[i].type = t})
           IN  /\ stats.recovered_by_type[t] <= n
               /\ (pc # "tally" /\ reads.stop # "interrupt") =>
                      stats.recovered_by_type[t] = n

C9_Witness ==
    /\ pc = "done"
    /\ \E i \in 1..Len(hits) :
           /\ hits[i].type = "zip"
           /\ hits[i].outcome = "rejected"
           /\ LacksPatterns("zip", hits[i].pos, hits[i].window)
           /\ hits[i].window >= 100
    /\ stats.false_positives >= 1
    /\ Len(files) = 0

\* C10: the output tree never holds a candidate file that is partially written or
\* that is not counted as recovered.  The two steps in which the code writes a
\* validated candidate and then counts it are left out, so that only files the
\* code leaves behind count.
C10_NoPartialOrUncountedFile ==
    pc \notin {"write", "ret"} =>
        /\ \A i \in 1..Len(files) : Complete(files[i])
        /\ Len(files) = stats.total_files_recovered

\* C11: a run that has returned to its caller, whether it completed, timed out or
\* failed on the source, has emitted the end-of-run summary, once.
C11_SummaryAtEveryTerminalState ==
    pc = "done" => summaries = 1

\* the offsets of the blocks below the scan ceiling that the source has bytes for
BlockOffsets ==
    IF cfg.block_size > 0
    THEN {j * cfg.block_size :
             j \in 0..((MinNat(device_size, cfg.src.size) - 1) \div cfg.block_size)}
    ELSE {}

\* C12: a read error on a block does not end the run: that iteration moves the
\* block cursor by exactly one block size, leaves bytes_scanned, the counters, the
\* hits and the files as they were, and the sweep goes on at the top of the loop; a
\* run that then completes has read every other block below the ceiling.
C12_ReadErrorAdvancesOneBlock ==
    /\ [][(pc = "read" /\ faults'.read = faults.read + 1) =>
            /\ position' = position + cfg.block_size
            /\ stats' = stats
            /\ hits' = hits
            /\ files' = files
            /\ pc' = "loop"
            /\ result' = "none"
            /\ summaries' = summaries]_vars
    /\ []((pc = "done" /\ result = "true" /\ ~timeout_reached) =>
            /\ BlockOffsets = Range(reads.blocks) \cup Range(reads.failed)
            /\ Range(reads.blocks) \cap Range(reads.failed) = {}
            /\ position = Len(reads.blocks) * cfg.block_size
                             + Len(reads.failed) * cfg.block_size)

C12_Witness ==
    /\ pc = "done"
    /\ result = "true"
    /\ ~timeout_reached
    /\ reads.failed = <<0>>
    /\ Len(reads.blocks) >= 2
    /\ stats.total_files_recovered = 1
    /\ \E i \in 1..Len(hits) : hits[i].block > 0

\* the files of the output tree that hold a whole candidate
WrittenFiles == {i \in 1..Len(files) : Complete(files[i])}

\* C13: a user interrupt at any point of the sweep makes the run emit the summary
\* and return failure; the files written before it stay as they are, and the
\* counters account for every one of them.
C13_InterruptKeepsFilesAndCounters ==
    [][(Running /\ pc' = "done" /\ reads'.stop = "interrupt") =>
          /\ result' = "false"
          /\ summaries' = summaries + 1
          /\ files' = files
          /\ stats' = stats
          /\ stats'.total_files_recovered = Cardinality(WrittenFiles)]_vars

\* the number of block iterations whose read was attempted
Iterations == Len(reads.blocks) + Len(reads.failed)

\* the run is inside a block iteration, past its block read
PastBlockRead ==
    \/ pc \in {"scan", "exists", "trailer", "probe", "heur", "check", "open", "write",
               "ret", "tally"}
    \/ pc = "fetched" /\ data.len > 0

\* the block reads so far were made at 0, block_size, 2 * block_size, ... in that
\* order, the block cursor is on the block of the current iteration, and every
\* extraction attempt that ended left the cursor of the source where it found it
BlocksInOrder ==
    /\ Range(reads.blocks) \cup Range(reads.failed) =
           {j * cfg.block_size : j \in 0..(Iterations - 1)}
    /\ \A i \in 1..(Len(reads.blocks) - 1) : reads.blocks[i] < reads.blocks[i + 1]
    /\ \A i \in 1..(Len(reads.failed) - 1) : reads.failed[i] < reads.failed[i + 1]
    /\ PastBlockRead =>
           /\ position = (Iterations - 1) * cfg.block_size
           /\ data.start = position
    /\ (\/ pc \in {"idle", "armed", "mkdir", "loop", "read", "summary", "return"}
        \/ pc = "fetched" /\ data.len = 0) =>
           position = Iterations * cfg.block_size
    /\ \A i \in 1..Len(hits) :
           /\ hits[i].before = hits[i].pos
           /\ hits[i].outcome # "pending" => hits[i].after = hits[i].before

\* C14: the k-th block iteration (k = 0, 1, ...) reads at offset k * block_size,
\* whatever the hits of the earlier blocks and whether their extractions recovered
\* a file, were rejected or raised; every extraction attempt leaves the cursor of
\* the source where it was when the attempt started; the block cursor moves by
\* exactly one block size per iteration, at the end of the iteration.
C14_PositionInvariant ==
    /\ []BlocksInOrder
    /\ [][\/ position' = position
          \/ /\ position' = position + cfg.block_size
             /\ pc \in {"scan", "read", "exists"}
             /\ pc' = "loop"]_vars

C14_Witness ==
    /\ cfg.note.family = "H"
    /\ cfg.block_size = 512
    /\ pc = "done"
    /\ result = "true"
    /\ Len(reads.failed) = 0
    /\ Iterations = 6
    /\ \E i, j \in 1..Len(hits) :
           /\ hits[i].outcome = "recovered"
           /\ hits[i].window > cfg.block_size
           /\ hits[j].outcome = "rejected"
           /\ hits[j].type = "zip"
           /\ hits[j].block > hits[i].block
    /\ faults.read = 1

\* the hits reported in the block iteration at offset b, in order
HitsOfBlock(b) == {i \in 1..Len(hits) : hits[i].block = b}

\* C15 as stated: within one block iteration no second signature, of the same or
\* of a different format, is reported after the first handled hit.
C15_OneHitPerBlock ==
    \A i, j \in 1..Len(hits) : i # j => hits[i].block # hits[j].block

\* the hits are reported block after block and, within a block, in the order of
\* the pairs, each pair once
HitsInPairOrder ==
    \A i, j \in 1..Len(hits) :
        i < j =>
            /\ hits[i].block <= hits[j].block
            /\ hits[i].block = hits[j].block => hits[i].pair < hits[j].pair

\* a hit whose existence test raised is the last one of its block iteration
DroppedHitEndsBlock ==
    \A i, j \in 1..Len(hits) :
        (i < j /\ hits[i].outcome = "dropped") => hits[i].block < hits[j].block

\* the occurrences of the magic sequence sig that lie wholly in the block at b,
\* read off the source
PairOccursIn(b, sig) ==
    {p \in NearSegs(cfg.src, Len(sig)) :
        /\ b <= p
        /\ p + Len(sig) <= b + cfg.block_size
        /\ p + Len(sig) <= cfg.src.size
        /\ MatchAt(cfg.src, p, sig)}

\* the block iteration ends at line 196: after each hit it handled, every later pair
\* whose magic sequence lies in the block, before or after that hit, was reported
\* too, at its first occurrence
LaterPairsReported ==
    (pc = "scan" /\ pc' = "loop") =>
        \A P \in {Pairs} : \A i \in 1..Len(P) : \A occ \in {PairOccursIn(position, P[i].sig)} :
            \A h \in HitsOfBlock(position) :
                (hits[h].pair < i /\ occ # {}) =>
                    \E g \in HitsOfBlock(position) :
                        /\ g > h
                        /\ hits[g].pair = i
                        /\ hits[g].pos = MinOf(occ)
                        /\ hits[g].outcome # "pending"

\* C15 amended: within one block iteration no second hit is reported for a (format
\* tag, magic sequence) pair whose hit has been handled, while every pair after it
\* in catalog order whose magic sequence lies in the block is still reported and
\* handled on that block, at whatever position, before the block cursor advances at
\* line 196; only a hit whose existence test raises (line 235) ends the block
\* iteration with the later pairs unsearched. The hits of a block iteration are all
\* reported before those of the next block.
C15_OneHitPerPairPerBlock ==
    /\ []HitsInPairOrder
    /\ []DroppedHitEndsBlock
    /\ [][LaterPairsReported]_vars

C15_Witness ==
    /\ cfg.src = RepeatedSource
    /\ cfg.block_size = 512
    /\ pc = "done"
    /\ result = "true"
    /\ Len(reads.failed) = 0
    /\ [i \in 1..Len(hits) |-> <<hits[i].type, hits[i].pos>>] =
           <<(<<"jpg", 200>>), (<<"png", 100>>), (<<"png", 700>>)>>
    /\ Cardinality(HitsOfBlock(0)) = 2

\* the run returned from a sweep that neither a timeout nor an interrupt stopped
Completed == pc = "done" /\ result = "true" /\ ~timeout_reached

\* C16: with block_size > 0 the sweep terminates, whatever the hits, the rejected
\* candidates and the read errors on the way, and a sweep that completes has its
\* cursor at or past the scan ceiling min(source size, max_scan_size), or has read a
\* block that yielded no bytes; a session is not refused for its block_size.
C16_SweepTerminates ==
    /\ (cfg.block_size > 0) => <>(pc = "done")
    /\ [](Completed =>
            \/ position >= ScanCeiling(cfg.device_size, cfg.max_scan_size)
            \/ ReadLen(cfg.src, position, cfg.block_size) = 0)
    /\ []((Running /\ pc # "armed") =>
              device_size = ScanCeiling(cfg.device_size, cfg.max_scan_size))

C16_Witness ==
    /\ cfg \in TermSessions
    /\ cfg.faulty
    /\ cfg.block_size = 512
    /\ Completed
    /\ position >= cfg.src.size
    /\ Len(reads.failed) = 1
    /\ Len(reads.blocks) = 2
    /\ stats.total_files_recovered = 1

\* the offset of the first occurrence of the trailer of t in the source at or after
\* X that ends within max_size bytes of X; -1 when there is none
FirstTrailer(t, X) ==
    FindIn(cfg.src, X, MinNat(cfg.src.size, X + MAX_FILE_SIZES(t)), FILE_TRAILERS(t), X)

\* the hits whose extraction was trailer-bounded and has returned
TrailerHits ==
    {i \in 1..Len(hits) :
        UsesTrailer(hits[i].type, cfg.deep_scan) /\ Extracted(i)}

\* C17: with no read error, a trailer-bounded extraction started at X returns the
\* bytes from X up to and including the first occurrence of the trailer at or after
\* X within the maximum size, wherever the trailer lies relative to the chunk seams;
\* no earlier occurrence is skipped and nothing after the trailer is returned.
C17_TrailerFirstOccurrence ==
    faults.read = 0 =>
        \A i \in TrailerHits :
            FirstTrailer(hits[i].type, hits[i].pos) # -1 =>
                hits[i].cand = FirstTrailer(hits[i].type, hits[i].pos) - hits[i].pos
                                 + Len(FILE_TRAILERS(hits[i].type))

C17_Witness ==
    /\ cfg.note.family = "I"
    /\ CleanEnd
    /\ Len(hits) = 1
    /\ hits[1].pos = 100
    /\ FirstTrailer(hits[1].type, 100) = 100 + chunk_size - 1
    /\ hits[1].cand = chunk_size - 1 + Len(FILE_TRAILERS(hits[1].type))
    /\ files = <<[type |-> cfg.note.fmt, start |-> 100, len |-> hits[1].cand,
                  written |-> hits[1].cand]>>

\* the trailer-bounded extraction of hit i has returned and what it read, from the
\* signature on, holds no trailer of its format
NoTrailerRead(i) ==
    /\ i \in TrailerHits
    /\ FindIn(cfg.src, hits[i].pos, hits[i].pos + hits[i].window,
              FILE_TRAILERS(hits[i].type), hits[i].pos) = -1

\* C18 as stated: with no trailer found, the partial buffer is returned only if
\* the maximum size was reached and the buffer is longer than 100 bytes; at the end
\* of the source before the maximum size, or on a read error, nothing is returned.
C18_PartialOnlyAtMaxSize ==
    \A i \in 1..Len(hits) :
        (NoTrailerRead(i) /\ hits[i].cand # None) =>
            /\ hits[i].window >= MAX_FILE_SIZES(hits[i].type)
            /\ hits[i].window > 100

\* C18 amended: with no trailer found, the partial buffer is returned if and only
\* if it is longer than 100 bytes, whether the extraction ended at the maximum
\* size, at the end of the source or on a read error.
C18_PartialIffLongerThanMin ==
    \A i \in 1..Len(hits) :
        NoTrailerRead(i) =>
            /\ hits[i].window > 100 => hits[i].cand = hits[i].window
            /\ hits[i].window <= 100 => hits[i].cand = None

C18_Witness ==
    /\ cfg.src = MixedSource
    /\ cfg.deep_scan
    /\ cfg.block_size = 512
    /\ CleanEnd
    /\ \E i \in 1..Len(hits) :
           /\ hits[i].type = "jpg"
           /\ NoTrailerRead(i)
           /\ hits[i].pos + hits[i].window = cfg.src.size
           /\ hits[i].window < MAX_FILE_SIZES("jpg")
           /\ hits[i].cand = hits[i].window
           /\ hits[i].outcome = "recovered"

\* the bytes the probe of a container hit at offset p gets: 16 KiB, or what is left
ProbeWindow(p) == MinNat(container_probe_size, cfg.src.size - p)

\* the handled hits of container formats
ContainerHits ==
    {i \in 1..Len(hits) : hits[i].type \in ContainerTags /\ Extracted(i)}

\* the probe of hit i holds the marker its format requires
MarkerInProbe(i) ==
    Contains(cfg.src, hits[i].pos, hits[i].pos + ProbeWindow(hits[i].pos),
             ProbeMarker(hits[i].type))

\* C19: a hit of a container format whose first 16 KiB from the signature do not
\* hold the marker of the format (zip PK 01 02, docx word/, xlsx xl/, pptx ppt/)
\* gives no candidate, nothing is read past the probe, and the hit counts as a
\* false positive even when a validation substring of the format is in the probe
\* or later in the source; a probe that holds the marker is read on from.
C19_ProbeWithoutMarkerRejected ==
    \A i \in ContainerHits :
        /\ ~MarkerInProbe(i) =>
               /\ hits[i].cand = None
               /\ hits[i].window <= ProbeWindow(hits[i].pos)
               /\ faults.read = 0 => hits[i].window = ProbeWindow(hits[i].pos)
               /\ hits[i].outcome = "rejected"
               /\ hits[i].file = 0
        /\ (MarkerInProbe(i) /\ faults.read = 0) =>
               /\ hits[i].cand # None
               /\ hits[i].cand >= ProbeWindow(hits[i].pos)

C19_Witness ==
    /\ cfg.note.family = "K"
    /\ cfg.note.fmt = "docx"
    /\ cfg.note.Y = container_probe_size + 600
    /\ CleanEnd
    /\ Len(hits) = 1
    /\ ~MarkerInProbe(1)
    /\ Contains(cfg.src, 0, cfg.src.size, PatWord)
    /\ Contains(cfg.src, 0, container_probe_size, PatContentTypes)
    /\ hits[1].window = container_probe_size
    /\ stats.false_positives = 1
    /\ Len(files) = 0

RECURSIVE SumOver(_, _)
\* the sum of f[t] over the tags t of the set S
SumOver(f, S) ==
    IF S = {} THEN 0
    ELSE LET t == CHOOSE x \in S : TRUE IN f[t] + SumOver(f, S \ {t})

\* the hits whose handling is over: _recover_file returned and was counted
HandledHits == {i \in 1..Len(hits) : hits[i].outcome # "pending"}

\* the counters agree with each other, with the files and with the hits
CountersAgree ==
    /\ stats.total_files_recovered =
           SumOver(stats.recovered_by_type, Range(cfg.file_types))
    /\ pc \notin {"write", "ret"} => stats.total_files_recovered = Len(files)
    /\ stats.total_files_recovered + stats.false_positives = Cardinality(HandledHits)

\* no counter is lower in the next state
CountersGrow ==
    /\ stats'.total_files_recovered >= stats.total_files_recovered
    /\ stats'.false_positives >= stats.false_positives
    /\ stats'.bytes_scanned >= stats.bytes_scanned
    /\ \A t \in Range(cfg.file_types) :
           stats'.recovered_by_type[t] >= stats.recovered_by_type[t]

\* C20: in every state of a scan total_files_recovered is the sum of the per-format
\* counts and the number of candidate files this run put in the output tree (the
\* file whose write and count are in progress aside), total_files_recovered +
\* false_positives is the number of hits handled so far, and no counter, nor
\* bytes_scanned, ever decreases.
C20_CountersConsistent ==
    /\ []CountersAgree
    /\ [][CountersGrow]_vars

\* the magic sequence of hit i, as the catalog gives it for the hit's pair
MagicOfHit(i) == Pairs[hits[i].pair].sig

\* the magic sequence pat occurs at p with all of its bytes in the block at b
WhollyInBlock(b, p, pat) ==
    /\ b <= p
    /\ p + Len(pat) <= b + cfg.block_size
    /\ p + Len(pat) <= cfg.src.size
    /\ MatchAt(cfg.src, p, pat)

\* the offsets of the block at b where pat occurs with all of its bytes in the block
OccurrencesInBlock(b, pat) ==
    {p \in NearSegs(cfg.src, Len(pat)) : WhollyInBlock(b, p, pat)}

\* hit i is the first occurrence of its magic sequence in its block, which is the
\* k-th block [k * block_size, (k+1) * block_size) of the source
FirstInItsBlock(i) ==
    /\ cfg.block_size > 0
    /\ hits[i].block % cfg.block_size = 0
    /\ hits[i].type = Pairs[hits[i].pair].type
    /\ \A sig \in {MagicOfHit(i)} :
           /\ WhollyInBlock(hits[i].block, hits[i].pos, sig)
           /\ hits[i].pos = MinOf(OccurrencesInBlock(hits[i].block, sig))

\* the hit reported last is the first occurrence of its magic sequence in its block
LastHitFirstInBlock == FirstInItsBlock(Len(hits))

\* a step reports at most one hit, leaves the hits reported before as they are, and
\* the hit it reports is the first occurrence of its magic sequence in its block
HitStep ==
    /\ Len(hits') \in {Len(hits), Len(hits) + 1}
    /\ \A i \in 1..Len(hits) :
           /\ hits'[i].pos = hits[i].pos
           /\ hits'[i].block = hits[i].block
           /\ hits'[i].pair = hits[i].pair
           /\ hits'[i].type = hits[i].type
    /\ Len(hits') > Len(hits) => LastHitFirstInBlock'

\* a step that leaves, at line 196, a block whose bytes were read (the handler of
\* line 214 leaves it with pairs unsearched): every pair whose magic sequence lies
\* wholly inside the block has been reported for it
BlockSwept ==
    (position' # position /\ pc = "scan" /\ position \in Range(reads.blocks)) =>
        \A i \in 1..Len(Pairs) : \A sig \in {Pairs[i].sig} :
            OccurrencesInBlock(position, sig) # {} =>
                \E h \in 1..Len(hits) : hits[h].block = position /\ hits[h].pair = i

\* no two hits share block and (format tag, magic sequence) pair
OneHitPerBlockAndPair ==
    \A i, j \in 1..Len(hits) :
        (hits[i].block = hits[j].block /\ hits[i].pair = hits[j].pair) => i = j

\* the offsets at which the magic sequence of pair i lies over a block boundary
Straddling(i) ==
    {p \in NearSegs(cfg.src, Len(Pairs[i].sig)) :
        /\ MatchAt(cfg.src, p, Pairs[i].sig)
        /\ p \div cfg.block_size # (p + Len(Pairs[i].sig) - 1) \div cfg.block_size}

\* C21: every hit, when it is reported, has all of its magic bytes inside one block
\* [k * block_size, (k+1) * block_size) and is the first occurrence of its (format
\* tag, magic sequence) pair in that block, and stays as reported; no two hits share
\* block and pair, so a magic sequence that straddles a block boundary is reported by
\* no block iteration; and when the sweep leaves a block it has read with its
\* for-loops run to their end, every pair whose magic sequence lies wholly inside
\* the block has been reported.
C21_HitsLieInsideOneBlock ==
    /\ []OneHitPerBlockAndPair
    /\ [][HitStep /\ BlockSwept]_vars

\* the sweep of the family L source in blocks of 512 is over: the png magic was
\* reported at 100 and neither at 300 nor over the boundary at 508, the jpg magic
\* at 1020 and not over the boundary at 1534
C21_Witness ==
    /\ CleanEnd
    /\ cfg.note.family = "L"
    /\ cfg.block_size = 512
    /\ \E i \in 1..Len(Pairs) : 508 \in Straddling(i)
    /\ \E i \in 1..Len(Pairs) : 1534 \in Straddling(i)
    /\ {hits[h].pos : h \in 1..Len(hits)} = {100, 1020}
    /\ Cardinality(OccurrencesInBlock(0, SigPng)) = 2

\* scan_device returned v (an interrupt leaves scan_device by an exception: the
\* value of that run is the one of recover_files)
ScanDeviceReturned(v) == pc = "done" /\ result = v /\ reads.stop # "interrupt"

\* the sweep ended at the scan ceiling or at the end of the source
SweepRanOut == reads.stop \in {"ceiling", "eof"}

\* the flag stays set
FlagStays == timeout_reached => timeout_reached'

\* C22: scan_device returns False only when accessing the source raised an I/O
\* error; a sweep stopped by the flag and a sweep that ran out (at the scan ceiling
\* or the end of the source) both return True; of the runs that returned True
\* those stopped by the flag are the ones whose flag is set; the flag is never
\* reset once set.
C22_FalseOnlyOnSourceError ==
    /\ [](ScanDeviceReturned("false") => reads.stop = "open")
    /\ []((pc = "done" /\ (reads.stop = "timeout" \/ SweepRanOut)) => result = "true")
    /\ [](ScanDeviceReturned("true") => (timeout_reached <=> reads.stop = "timeout"))
    /\ [][FlagStays]_vars

\* what holds of the ways scan_device ends: it returns False exactly when an
\* OSError left the part of the run that precedes the sweep, raised by the source or
\* by the creation of a format's output directory; a sweep stopped by the flag and a
\* sweep that ran out both return True; a run stopped by the flag has the flag set
\* and had blocks left below the ceiling; the flag is never reset.
ScanDeviceOutcomes ==
    /\ [](ScanDeviceReturned("false") <=>
              (pc = "done" /\ reads.stop \in {"open", "mkdir"}))
    /\ [](reads.stop \in {"open", "mkdir"} => Len(reads.blocks) = 0 /\ summaries = 0)
    /\ []((pc = "done" /\ (reads.stop = "timeout" \/ SweepRanOut)) => result = "true")
    /\ [](reads.stop = "timeout" =>
              timeout_reached /\ SweepGoesOn(position, device_size, cfg.block_size))
    /\ [](reads.stop = "ceiling" =>
              ~SweepGoesOn(position, device_size, cfg.block_size))
    /\ [][FlagStays]_vars

\* scan_device returned True after a sweep that reached the ceiling, and the timer
\* had gone off while the last block was handled: the flag is set in a run that
\* was not stopped by it
FlagSetAfterFullSweep ==
    /\ ScanDeviceReturned("true")
    /\ reads.stop = "ceiling"
    /\ timeout_reached
    /\ reads.atTimeout = Len(reads.blocks)
    /\ Len(reads.blocks) > 0

====
